---- MODULE Spec2Model ----
(***************************************************************************)
(* Budgeted sensor placement on trees: the P_err and E_dist optimizers     *)
(* (prob_err.py, exp_dist.py), the E_dist preprocessing                    *)
(* (preprocess_exp_dist.py) and the brute-force oracle (utilities.py).     *)
(*                                                                         *)
(* A call of optimal_placement is modelled phase by phase: the entry       *)
(* checks and the rooting, the subtree statistics, the class tables, the   *)
(* in-place normalisation (one node of the iteration at a time), the       *)
(* dynamic program, and the return that clears the memo tables.            *)
(*                                                                         *)
(* Numbers that the code holds as floats are kept exactly, in units of     *)
(* 1/Unit(n): the float v is the integer v * Unit(n).  Unit(n) is a        *)
(* multiple of every class size and of n, so every division the code       *)
(* performs is exact in the model.                                         *)
(***************************************************************************)
EXTENDS Integers, Sequences, FiniteSets, TLC

\* ------------------------------------------------------------------ bounds
MaxN == 5        \* trees on 1..MaxN nodes are drawn as inputs
MaxB == 4        \* budgets 1..MaxB are drawn as inputs
MaxCalls == 2    \* number of rooted trees built in one behaviour

\* float('infinity'); x + INFINITY = INFINITY
INFINITY == 1000000000

Plus(a, b) == IF a = INFINITY \/ b = INFINITY THEN INFINITY ELSE a + b

\* ----------------------------------------------------------- arithmetic
RECURSIVE Gcd(_, _)
Gcd(a, b) == IF b = 0 THEN a ELSE Gcd(b, a % b)

RECURSIVE Lcm1(_)
Lcm1(n) == IF n <= 1 THEN 1 ELSE LET l == Lcm1(n - 1) IN (l * n) \div Gcd(l, n)

\* the integer that stands for the float 1.0 on a graph of n nodes
Unit(n) == n * Lcm1(n)

\* x / float(m); INFINITY / m = INFINITY
Div(x, m) == IF x = INFINITY THEN INFINITY ELSE x \div m

RECURSIVE Sum(_)
Sum(s) == IF Len(s) = 0 THEN 0 ELSE Plus(Head(s), Sum(Tail(s)))

Min(S) == CHOOSE m \in S : \A y \in S : m <= y
Max(S) == CHOOSE m \in S : \A y \in S : m >= y

\* sorted(S) for a set of node ids
RECURSIVE SortAsc(_)
SortAsc(S) == IF S = {} THEN <<>> ELSE LET m == Min(S) IN <<m>> \o SortAsc(S \ {m})

RECURSIVE SortDesc(_)
SortDesc(S) == IF S = {} THEN <<>> ELSE LET m == Max(S) IN <<m>> \o SortDesc(S \ {m})

Range(s) == {s[i] : i \in 1..Len(s)}

\* tuple comparison of Python: a < b for tuples of integers
RECURSIVE LexLess(_, _)
LexLess(a, b) ==
    IF Len(b) = 0 THEN FALSE
    ELSE IF Len(a) = 0 THEN TRUE
    ELSE IF Head(a) # Head(b) THEN Head(a) < Head(b)
    ELSE LexLess(Tail(a), Tail(b))

\* (e1, o1) <= (e2, o2) for the (value, sensors) pairs the DPs return
PairLeq(p, q) == \/ p.e < q.e
                 \/ p.e = q.e /\ (p.o = q.o \/ LexLess(p.o, q.o))

\* min(results)
MinPair(S) == CHOOSE p \in S : \A q \in S : PairLeq(p, q)

\* ------------------------------------------------------------- the graphs
Nodes(g) == 0..(g.n - 1)

Neighbors(g, u) == {v \in Nodes(g) : {u, v} \in g.edges}

Degree(g, u) == Cardinality(Neighbors(g, u))

RECURSIVE Bfs(_, _, _, _)
Bfs(g, frontier, seen, d) ==
    IF frontier = {} THEN <<>>
    ELSE LET next == (UNION {Neighbors(g, u) : u \in frontier}) \ seen
         IN [v \in frontier |-> d] @@ Bfs(g, next, seen \cup next, d + 1)

\* nx.all_pairs_dijkstra_path_length / nx.floyd_warshall on an unweighted
\* graph: D[u][v] is the number of edges on the shortest path
Dists(g) == [u \in Nodes(g) |-> Bfs(g, {u}, {u}, 0)]

\* nx.is_tree
is_tree(g) == /\ Cardinality(g.edges) = g.n - 1
              /\ DOMAIN Bfs(g, {0}, {0}, 0) = Nodes(g)

find_leaves(g) ==
    IF g.n = 1 THEN SortAsc(Nodes(g))
    ELSE SortAsc({v \in Nodes(g) : Degree(g, v) = 1})

\* ---------------------------------------------------------------- inputs
\* the trees on n nodes in which every node i > 0 hangs below a smaller one
TreesOn(n) ==
    {[n |-> n, edges |-> {{i, p[i]} : i \in 1..(n - 1)}] :
        p \in {q \in [1..(n - 1) -> 0..(n - 1)] : \A i \in 1..(n - 1) : q[i] < i}}

\* scenario S3, the balanced binary tree of depth 2
S3Tree == [n |-> 7, edges |-> {{0, 1}, {0, 2}, {1, 3}, {1, 4}, {2, 5}, {2, 6}}]

\* the spider with three legs of two edges
SpiderTree == [n |-> 7, edges |-> {{0, 1}, {0, 2}, {0, 3}, {1, 4}, {2, 5}, {3, 6}}]

Trees == (UNION {TreesOn(n) : n \in 1..MaxN}) \cup {S3Tree, SpiderTree}

\* graphs that are not trees: a tree with one edge removed, and the cycles
Forests == UNION {{[n |-> t.n, edges |-> t.edges \ {e}] : e \in t.edges} :
                      t \in UNION {TreesOn(n) : n \in 2..(MaxN - 1)}}

Cycles == {[n |-> n, edges |-> {{i, (i + 1) % n} : i \in 0..(n - 1)}] : n \in 3..MaxN}

NonTrees == Forests \cup Cycles

Graphs == Trees \cup NonTrees

Budgets == 1..MaxB

\* the order in which a node's successors are listed by the rooted tree
Orders == {"asc", "desc"}

Modules == {"prob_err", "exp_dist"}

\* ------------------------------------------------------- the rooted tree
NoTree == [id |-> 0]

\* nx.dfs_tree(tree, source=root), with the attributes the code attaches
\* to the directed graph and to its nodes (unset attributes are <<>>)
dfs_tree(g, root, order, id) ==
    LET D == Dists(g)
        pred == [x \in Nodes(g) \ {root} |->
                    CHOOSE y \in Neighbors(g, x) : D[root][y] = D[root][x] - 1]
        below(x) == IF x = root THEN Neighbors(g, x) ELSE Neighbors(g, x) \ {pred[x]}
    IN [id |-> id, n |-> g.n, root |-> root, budget |-> 0,
        pred |-> pred,
        succ |-> [x \in Nodes(g) |->
                    IF order = "asc" THEN SortAsc(below(x)) ELSE SortDesc(below(x))],
        deg |-> [x \in Nodes(g) |-> Degree(g, x)],
        dists |-> <<>>, size |-> <<>>, sum_below |-> <<>>, sum_above |-> <<>>,
        exp_dist |-> <<>>]

\* ------------------------------------------------------------- the state
VARIABLES
    pc,        \* position inside optimal_placement, "idle" between calls
    module,    \* which optimizer is (or was last) called
    tree,      \* the undirected input graph of the call
    budget,    \* the budget of the call
    directed,  \* the rooted tree object of the call, NoTree outside
    todo,      \* nodes the normalisation loop has not visited yet
    memo,      \* the lru_cache tables, one per memoised function
    local,     \* the pair (err, obs) that _opt handed to optimal_placement
    result,    \* what the last call handed to its caller
    nextId     \* number of rooted tree objects created so far

vars == <<pc, module, tree, budget, directed, todo, memo, local, result, nextId>>

MemoNames == {"size_subtree", "sum_dist_below", "sum_dist_above", "exp_distance",
              "exp_distance_parent", "prob_err._opt", "prob_err._optc",
              "exp_dist._opt", "exp_dist._optc"}

\* every table is a function on the keys it holds; a key starts with the
\* identity of the tree object it was computed for.  exp_distance_parent
\* reads a table that changes under it, so its cached values are kept;
\* the other functions depend on their key only and their entries are TRUE
EmptyMemo == [f \in MemoNames |-> <<>>]

\* mutant: the table is not cleared
cache_clear_kept(table) == table

\* lru_cache.cache_clear()
cache_clear(table) == <<>>

NoResult == [status |-> "none"]
Raised(what) == [status |-> "error", error |-> what]
Returned(obj, obs) == [status |-> "ok", obj |-> obj, obs |-> obs]

NoGraph == [n |-> 0, edges |-> {}]

Init ==
    /\ pc = "idle"
    /\ module = "none"
    /\ tree = NoGraph
    /\ budget = 0
    /\ directed = NoTree
    /\ todo = {}
    /\ memo = EmptyMemo
    /\ local = <<>>
    /\ result = NoResult
    /\ nextId = 0

Keys(S) == [k \in S |-> TRUE]

\* ------------------------------------------------- utilities.size_subtree
RECURSIVE size_subtree(_, _)
size_subtree(t, u) ==
    LET children == t.succ[u]
    IN IF Len(children) = 0 THEN 1
       ELSE 1 + Sum([i \in 1..Len(children) |-> size_subtree(t, children[i])])

\* the loop "for x in directed: ... size_subtree(directed, x)"
SubtreeSizes(t) == [x \in 0..(t.n - 1) |-> size_subtree(t, x)]

\* ------------------------------------------------------- prob_err._opt/_optc
\* mutant: the sensors placed in the remaining children are dropped
joined_obs_first(o1, o2) == o1

\* o1 + o2: the sensors below the first child, then those below the rest
joined_obs(o1, o2) == o1 \o o2

\* mutant: the subtree that receives the whole budget is not penalised
Penalty_none(t, x, k) == 0

\* the unresolved node x of a subtree that receives the whole budget
Penalty(t, x, k) == IF t.root # x /\ t.budget = k THEN 1 ELSE 0

\* mutant: the children without sensors are counted, not their subtrees
unresolved_below_count(t, children) == Len(children)

\* sum(tree.node[n]['size'] for n in children): no sensor below children
unresolved_below(t, children) ==
    Sum([i \in 1..Len(children) |-> t.size[children[i]]])

\* mutant: a leaf cannot take the last sensor
PE_leaf_never(x, k) == [e |-> INFINITY, o |-> <<>>]

\* k > 0 sensors arrive at the leaf x
PE_leaf(x, k) ==
    IF k > 1 THEN [e |-> INFINITY, o |-> <<>>] ELSE [e |-> 0, o |-> <<x>>]

RECURSIVE PE_opt(_, _, _), PE_optc(_, _, _, _)
PE_opt(t, x, k) ==
    IF k = 0 THEN [e |-> t.size[x], o |-> <<>>]
    ELSE IF t.size[x] = 1 THEN PE_leaf(x, k)
    ELSE LET r == PE_optc(t, x, k, t.succ[x])
         IN [e |-> Plus(r.e, Penalty(t, x, k)), o |-> r.o]

PE_optc(t, x, k, children) ==
    IF Len(children) = 0
    THEN IF k > 0 THEN [e |-> INFINITY, o |-> <<>>] ELSE [e |-> 0, o |-> <<>>]
    ELSE IF k = 0
         THEN [e |-> unresolved_below(t, children), o |-> <<>>]
    ELSE LET first == Head(children)
             rest == Tail(children)
             results == {LET r1 == PE_opt(t, first, l)
                             r2 == PE_optc(t, x, k - l, rest)
                         IN [e |-> Plus(r1.e, r2.e), o |-> joined_obs(r1.o, r2.o)] : l \in 0..k}
         IN MinPair(results)

\* the arguments with which _opt and _optc are called below _opt(t, x, k):
\* these are the keys the two lru_cache tables hold afterwards
RECURSIVE PE_opt_calls(_, _, _), PE_optc_calls(_, _, _, _)
PE_opt_calls(t, x, k) ==
    {<<"_opt", t.id, x, k>>} \cup
        (IF k = 0 \/ t.size[x] = 1 THEN {} ELSE PE_optc_calls(t, x, k, t.succ[x]))

PE_optc_calls(t, x, k, children) ==
    {<<"_optc", t.id, x, k, children>>} \cup
        (IF Len(children) = 0 \/ k = 0 THEN {}
         ELSE UNION {PE_opt_calls(t, Head(children), l) \cup
                     PE_optc_calls(t, x, k - l, Tail(children)) : l \in 0..k})

\* ------------------------------------------------ preprocess_exp_dist.py
\* the float of the integer i, on the tree t
R(t, i) == i * Unit(t.n)

SeqOfSizes(t, cs) == [i \in 1..Len(cs) |-> t.size[cs[i]]]

\* sum_below(c) + D[u][c] * size(c), for every c of the tuple cs
SeqBelow(t, u, cs) ==
    [i \in 1..Len(cs) |-> t.sum_below[cs[i]] + t.dists[u][cs[i]] * t.size[cs[i]]]

\* mutant: the edge to the child c is counted once, not once for every
\* node below it
below_through_once(t, u, c, below_c) == below_c + t.dists[u][c]

\* the distances from u to the nodes of the subtree of its child c, given
\* the sum below c
below_through(t, u, c, below_c) == below_c + t.dists[u][c] * t.size[c]

RECURSIVE sum_dist_below(_, _)
sum_dist_below(t, u) ==
    LET cs == t.succ[u]
    IN IF Len(cs) = 0 THEN 0
       ELSE Sum([i \in 1..Len(cs) |->
                    below_through(t, u, cs[i], sum_dist_below(t, cs[i]))])

RECURSIVE sum_dist_above(_, _)
sum_dist_above(t, u) ==
    IF u = t.root THEN 0
    ELSE LET p == t.pred[u]
             above_predecessor == sum_dist_above(t, p)
             other_children_p == t.sum_below[p] - t.sum_below[u]
                                    - t.dists[u][p] * t.size[u]
             from_u_to_p == t.dists[u][p] * (t.n - t.size[u])
         IN above_predecessor + other_children_p + from_u_to_p

\* the subsequences of the sorted tuple cs, in the order of the words on
\* "01" that itertools.product generates: the empty tuple comes first
RECURSIVE SubTuples(_)
SubTuples(cs) ==
    IF Len(cs) = 0 THEN << <<>> >>
    ELSE LET r == SubTuples(Tail(cs))
         IN r \o [i \in 1..Len(r) |-> <<Head(cs)>> \o r[i]]

ordered_tuples_children(t, x) == SubTuples(SortAsc(Range(t.succ[x])))

RECURSIVE exp_distance(_, _, _)
exp_distance(t, u, sel_children) ==
    IF t.deg[u] = 1 \/ Len(sel_children) = 0 THEN 0
    ELSE LET size_below == Sum(SeqOfSizes(t, sel_children))
             below == SeqBelow(t, u, sel_children)
         IN   Sum([i \in 1..Len(sel_children) |->
                     exp_distance(t, sel_children[i],
                                  SortAsc(Range(t.succ[sel_children[i]])))])
            + Sum([i \in 1..Len(sel_children) |->
                     2 * below[i] * (size_below - t.size[sel_children[i]])])
            + Sum([i \in 1..Len(sel_children) |-> 2 * below[i]])

\* size_classes[x][sel_tuple]
size_classes(t, x, sel_tuple) ==
    LET s == Sum(SeqOfSizes(t, sel_tuple))
    IN IF s # 0 THEN s + 1 ELSE 0

\* size_classes[x][(p, ) + sel_tuple]
size_classes_parent(t, x, sel_tuple) ==
    t.n - t.size[x] + Max({size_classes(t, x, sel_tuple), 1})

\* the table exp_dist after the loop that fills it with exp_distance
ExpDistTable(t) ==
    LET keys == UNION {LET ts == ordered_tuples_children(t, x)
                       IN {<<x, ts[i]>> : i \in 1..Len(ts)} : x \in 0..(t.n - 1)}
    IN [k \in keys |-> R(t, exp_distance(t, k[1], k[2]))]

\* mutant: exp_distance_parent is not memoised
CacheHit_never(cache, key) == FALSE

\* whether the lru_cache of exp_distance_parent answers the call
CacheHit(cache, key) == key \in DOMAIN cache

\* exp_distance_parent behind its lru_cache: the value and the cache after
\* the call.  The first line of the body reads the table of the tree as it
\* is at the time of the call.
RECURSIVE exp_distance_parent(_, _, _, _)
exp_distance_parent(t, cache, u, sel_children) ==
    LET key == <<t.id, u, sel_children>>
    IN IF CacheHit(cache, key) THEN [v |-> cache[key], cache |-> cache]
       ELSE LET exp_dist_par == t.exp_dist[<<u, sel_children>>]
            IN IF u = t.root
               THEN [v |-> exp_dist_par, cache |-> (key :> exp_dist_par) @@ cache]
               ELSE LET parent == t.pred[u]
                        other_children == SortAsc(Range(t.succ[parent]) \ {u})
                        up == exp_distance_parent(t, cache, parent, other_children)
                        sum_below_sel == Sum(SeqBelow(t, u, sel_children))
                        size_above == t.n - t.size[u]
                        size_below == Sum(SeqOfSizes(t, sel_children)) + 1
                        val == exp_dist_par + up.v
                               + R(t, 2 * (sum_below_sel * size_above
                                           + t.sum_above[u] * size_below))
                    IN [v |-> val, cache |-> (key :> val) @@ up.cache]

\* one iteration of the normalisation loop, for the node x: the table and
\* the cache after the tuples sels of x have been handled in order
RECURSIVE normalize(_, _, _, _)
normalize(t, cache, x, sels) ==
    IF Len(sels) = 0 THEN [exp_dist |-> t.exp_dist, cache |-> cache]
    ELSE LET sel_children == Head(sels)
             r == exp_distance_parent(t, cache, x, sel_children)
             tab == t.exp_dist
             tab1 == IF x = t.root
                     THEN [tab EXCEPT ![<<x, sel_children>>] =
                              Div(r.v, size_classes(t, x, sel_children))]
                     ELSE LET withp == <<t.pred[x]>> \o sel_children
                              tabp == (<<x, withp>> :>
                                         Div(r.v, size_classes_parent(t, x, sel_children)))
                                      @@ tab
                          IN IF Len(sel_children) # 0
                             THEN [tabp EXCEPT ![<<x, sel_children>>] =
                                      Div(tab[<<x, sel_children>>],
                                          size_classes(t, x, sel_children))]
                             ELSE tabp
         IN normalize([t EXCEPT !.exp_dist = tab1], r.cache, x, Tail(sels))

normalize_node(t, cache, x) ==
    LET ts == ordered_tuples_children(t, x)
    IN normalize(t, cache, x, IF x = t.root THEN Tail(ts) ELSE ts)

\* ------------------------------------------------------- exp_dist._opt/_optc
\* mutant: the tuple is looked up as it was built, unsorted
class_key_as_built(t, x, equiv_neighs) == equiv_neighs

\* the key under which _optc looks the class of x up: the predecessor, if
\* it leads the tuple, stays first and the rest is sorted
class_key(t, x, equiv_neighs) ==
    IF Len(equiv_neighs) > 1 /\ x # t.root /\ Head(equiv_neighs) = t.pred[x]
    THEN <<Head(equiv_neighs)>> \o SortAsc(Range(Tail(equiv_neighs)))
    ELSE SortAsc(Range(equiv_neighs))

\* the tuple non_sensored with which _opt enters _optc
first_non_sensored(t, x, k) ==
    IF t.root # x /\ t.budget = k THEN <<t.pred[x]>> ELSE <<>>

\* mutant: a child that gets no sensor is forgotten
with_skipped_forgot(non_sensored, first) == non_sensored

\* non_sensored + (first, ): the first child gets no sensor
with_skipped(non_sensored, first) == non_sensored \o <<first>>

\* mutant: a subtree never gets more than one sensor
max_sent_one(t, k) == 1

\* maximum budget sent to a single subtree
max_sent(t, k) == Min({k, t.budget - 1})

RECURSIVE ED_opt(_, _, _), ED_optc(_, _, _, _, _)
ED_opt(t, x, k) ==
    IF t.deg[x] = 1
    THEN IF k > 1 THEN [e |-> INFINITY, o |-> <<>>] ELSE [e |-> 0, o |-> <<x>>]
    ELSE ED_optc(t, x, k, t.succ[x], first_non_sensored(t, x, k))

ED_optc(t, x, k, children, non_sensored) ==
    IF Len(children) = 0 /\ k > 0 THEN [e |-> INFINITY, o |-> <<>>]
    ELSE IF k = 0
    THEN LET key == <<x, class_key(t, x, non_sensored \o children)>>
         \* a missing key raises KeyError: PlaceSensors then fails the call
         IN [e |-> IF key \in DOMAIN t.exp_dist THEN t.exp_dist[key] ELSE INFINITY,
             o |-> <<>>]
    ELSE LET whole == IF t.root # x /\ t.budget = k
                      THEN {ED_opt(t, children[i], k) : i \in 1..Len(children)}
                      ELSE {}
             first == Head(children)
             rest == Tail(children)
             skip == ED_optc(t, x, k, rest, with_skipped(non_sensored, first))
             split == {LET r1 == ED_opt(t, first, l)
                           r2 == ED_optc(t, x, k - l, rest, non_sensored)
                       IN [e |-> Plus(r1.e, r2.e), o |-> joined_obs(r1.o, r2.o)] :
                           l \in 1..max_sent(t, k)}
         IN MinPair(whole \cup {skip} \cup split)

\* the arguments with which _opt and _optc are called below _opt(t, x, k)
RECURSIVE ED_opt_calls(_, _, _), ED_optc_calls(_, _, _, _, _)
ED_opt_calls(t, x, k) ==
    {<<"_opt", t.id, x, k>>} \cup
        (IF t.deg[x] = 1 THEN {}
         ELSE ED_optc_calls(t, x, k, t.succ[x], first_non_sensored(t, x, k)))

ED_optc_calls(t, x, k, children, non_sensored) ==
    {<<"_optc", t.id, x, k, children, non_sensored>>} \cup
        (IF (Len(children) = 0 /\ k > 0) \/ k = 0 THEN {}
         ELSE (IF t.root # x /\ t.budget = k
               THEN UNION {ED_opt_calls(t, children[i], k) : i \in 1..Len(children)}
               ELSE {})
              \cup ED_optc_calls(t, x, k, Tail(children),
                                 with_skipped(non_sensored, Head(children)))
              \cup UNION {ED_opt_calls(t, Head(children), l) \cup
                          ED_optc_calls(t, x, k - l, Tail(children), non_sensored) :
                              l \in 1..max_sent(t, k)})

\* the keys that the calls of _optc with k = 0 look up in exp_dist
ED_lookups(t, calls) ==
    {<<c[3], class_key(t, c[3], c[6] \o c[5])>> : c \in {d \in calls : d[1] = "_optc" /\ d[4] = 0}}

\* the lru_cache keys of the calls: the arguments, the tree object first
OptKeys(calls) == Keys({Tail(c) : c \in {d \in calls : d[1] = "_opt"}})
OptcKeys(calls) == Keys({Tail(c) : c \in {d \in calls : d[1] = "_optc"}})

\* ------------------------------------------------------ the brute oracle
\* int((10**8) * d) of an integer distance difference d
SignatureScale == 100000000

\* mutant: the distance to the first sensor is not subtracted
signature_raw(D, sensors, v) ==
    [i \in 1..(Len(sensors) - 1) |-> SignatureScale * D[v][sensors[i + 1]]]

signature(D, sensors, v) ==
    [i \in 1..(Len(sensors) - 1) |->
        SignatureScale * (D[v][sensors[i + 1]] - D[v][sensors[1]])]

\* utilities.equivalence_classes: the nodes grouped by signature
equivalence_classes(D, sensors) ==
    {{w \in DOMAIN D : signature(D, sensors, w) = signature(D, sensors, v)} :
        v \in DOMAIN D}

\* the classes as a list (they are disjoint: ordered by their least node)
ClassSeq(classes) ==
    LET mins == SortAsc({Min(c) : c \in classes})
    IN [i \in DOMAIN mins |-> CHOOSE c \in classes : Min(c) = mins[i]]

\* utilities.prob_err_from_cardinalities: the sum of (l - 1) / n, n the
\* sum of the cardinalities
prob_err_from_cardinalities(classes) ==
    LET cs == ClassSeq(classes)
        n == Sum([i \in DOMAIN cs |-> Cardinality(cs[i])])
    IN Sum([i \in DOMAIN cs |-> Div((Cardinality(cs[i]) - 1) * Unit(n), n)])

\* utilities.exp_dist_from_classes
exp_dist_from_classes(D, classes) ==
    LET cs == ClassSeq(classes)
        n == Cardinality(DOMAIN D)
        within(c) == LET m == SortAsc(c)
                     IN Sum([i \in DOMAIN m |-> Sum([j \in DOMAIN m |->
                            IF i < j THEN Div(2 * D[m[i]][m[j]] * Unit(n), Len(m))
                            ELSE 0])])
    IN Div(Sum([i \in DOMAIN cs |-> within(cs[i])]), n)

\* itertools.combinations(leaves, budget), leaves in increasing order
combinations(leaves, b) ==
    {SortAsc(S) : S \in {Q \in SUBSET Range(leaves) : Cardinality(Q) = b}}

\* the loop "if err < opt_err" started from the bound init: the least
\* value and, among the placements that reach it, the first enumerated
BruteLoop(init, cands) ==
    IF cands = {} THEN [e |-> init, o |-> <<>>]
    ELSE LET best == MinPair(cands)
         IN IF best.e < init THEN best ELSE [e |-> init, o |-> <<>>]

\* utilities.prob_err(tree, leaves, budget)
prob_err(g, leaves, b) ==
    LET D == Dists(g)
    IN BruteLoop(2 * Unit(g.n),
                 {[e |-> prob_err_from_cardinalities(equivalence_classes(D, sensors)),
                   o |-> sensors] : sensors \in combinations(leaves, b)})

\* utilities.exp_dist(tree, leaves, budget)
exp_dist(g, leaves, b) ==
    LET D == Dists(g)
        all == Sum([u \in 1..g.n |-> Sum([v \in 1..g.n |-> D[u - 1][v - 1]])])
    IN BruteLoop(all * Unit(g.n),
                 {[e |-> exp_dist_from_classes(D, equivalence_classes(D, sensors)),
                   o |-> sensors] : sensors \in combinations(leaves, b)})

\* mutant: a budget equal to the number of leaves is not a shortcut
Saturated_strict(b, leaves) == b > Len(leaves)

\* "if budget >= len(leaves)": every leaf gets a sensor
Saturated(b, leaves) == b >= Len(leaves)

\* ------------------------------------------- the phases of a rooted call
\* directed.graph['dists'] = nx.all_pairs_dijkstra_path_length(tree)
WithDists(t, g) == [t EXCEPT !.dists = Dists(g)]

\* directed.node[x]['size'] for every x
WithSizes(t) == [t EXCEPT !.size = SubtreeSizes(t)]

\* directed.node[x]['sum_below'] for every x
WithSumBelow(t) ==
    [t EXCEPT !.sum_below = [x \in 0..(t.n - 1) |-> sum_dist_below(t, x)]]

\* directed.node[x]['sum_above'] for every x
WithSumAbove(t) ==
    [t EXCEPT !.sum_above = [x \in 0..(t.n - 1) |-> sum_dist_above(t, x)]]

\* directed.graph['exp_dist'] = exp_dist, before the normalisation
WithExpDist(t) == [t EXCEPT !.exp_dist = ExpDistTable(t)]

\* the normalisation loop over the nodes in the order xs
RECURSIVE NormalizeAll(_, _, _)
NormalizeAll(t, cache, xs) ==
    IF Len(xs) = 0 THEN t
    ELSE LET r == normalize_node(t, cache, Head(xs))
         IN NormalizeAll([t EXCEPT !.exp_dist = r.exp_dist], r.cache, Tail(xs))

\* preprocess(tree, root) with the successors listed in the given order
\* and the nodes iterated in increasing order
preprocess(g, root, order) ==
    LET t == WithExpDist(WithSumAbove(WithSumBelow(WithSizes(
                 WithDists(dfs_tree(g, root, order, 0), g)))))
    IN NormalizeAll(t, <<>>, SortAsc(Nodes(g)))

\* float(err) / len(tree) of prob_err.optimal_placement
PE_scaled(t, err) == Div(IF err = INFINITY THEN INFINITY ELSE R(t, err), t.n)

\* float(exp_dist) / len(tree) of exp_dist.optimal_placement
ED_scaled(t, e) == Div(e, t.n)

\* the value prob_err.optimal_placement(g, b) returns when random.choice
\* picks root
PE_optimal(g, b, root, order) ==
    IF Saturated(b, find_leaves(g)) THEN 0
    ELSE LET run(t) == PE_scaled(t, PE_opt(t, root, b).e)
             directed_tree == [WithSizes(dfs_tree(g, root, order, 0)) EXCEPT !.budget = b]
         \* the rooted tree is built once and the dynamic program runs on it
         IN CHOOSE v \in {run(t) : t \in {directed_tree}} : TRUE

\* the value exp_dist.optimal_placement(g, b) returns when random.choice
\* picks root
ED_optimal(g, b, root, order) ==
    IF Saturated(b, find_leaves(g)) THEN 0
    ELSE LET run(t) == ED_scaled(t, ED_opt(t, root, b).e)
             directed_tree == [preprocess(g, root, order) EXCEPT !.budget = b]
         \* the rooted tree is built once and the dynamic program runs on it
         IN CHOOSE v \in {run(t) : t \in {directed_tree}} : TRUE

Optimal(m, g, b, root, order) ==
    IF m = "prob_err" THEN PE_optimal(g, b, root, order)
    ELSE ED_optimal(g, b, root, order)

\* ------------------------------------------------------------ the actions
NonLeaves(g) == Nodes(g) \ Range(find_leaves(g))

\* a call ends: nothing is left of its locals
Finish(r) ==
    /\ pc' = "done"
    /\ result' = r
    /\ directed' = NoTree
    /\ todo' = {}
    /\ local' = <<>>

\* whether the entry of the optimizer m asserts nx.is_tree(tree): prob_err
\* does, exp_dist leaves it to preprocess
ChecksTreeAtEntry(m) == m = "prob_err"

\* optimal_placement(tree, budget) of the module m, up to the rooted tree
Call(m, g, b) ==
    /\ pc = "idle"
    /\ module' = m /\ tree' = g /\ budget' = b
    /\ LET leaves == find_leaves(g)
       IN IF b < 2 THEN Finish(Raised("AssertionError")) /\ UNCHANGED <<memo, nextId>>
          ELSE IF ChecksTreeAtEntry(m) /\ ~is_tree(g)
          THEN Finish(Raised("AssertionError")) /\ UNCHANGED <<memo, nextId>>
          ELSE IF Saturated(b, leaves)
          THEN Finish(Returned(0, leaves)) /\ UNCHANGED <<memo, nextId>>
          ELSE IF NonLeaves(g) = {}
          THEN Finish(Raised("IndexError")) /\ UNCHANGED <<memo, nextId>>
          ELSE IF ~is_tree(g)
          THEN Finish(Raised("AssertionError")) /\ UNCHANGED <<memo, nextId>>
          ELSE /\ nextId < MaxCalls
               /\ \E root \in NonLeaves(g), order \in Orders :
                    LET t == dfs_tree(g, root, order, nextId + 1)
                    IN directed' = IF m = "exp_dist" THEN WithDists(t, g) ELSE t
               /\ nextId' = nextId + 1
               /\ pc' = "size"
               /\ UNCHANGED <<todo, memo, local, result>>

\* the loop over size_subtree and the cache_clear after it; prob_err then
\* attaches the budget to the tree
ComputeSizes ==
    /\ pc = "size"
    /\ LET t == WithSizes(directed)
       IN IF module = "prob_err"
          THEN directed' = [t EXCEPT !.budget = budget] /\ pc' = "dp"
          ELSE directed' = t /\ pc' = "sum_below"
    /\ memo' = [memo EXCEPT !["size_subtree"] =
                   cache_clear(Keys({<<directed.id, x>> : x \in 0..(directed.n - 1)}) @@ @)]
    /\ UNCHANGED <<module, tree, budget, todo, local, result, nextId>>

ComputeSumBelow ==
    /\ pc = "sum_below"
    /\ directed' = WithSumBelow(directed)
    /\ memo' = [memo EXCEPT !["sum_dist_below"] =
                   cache_clear(Keys({<<directed.id, x>> : x \in 0..(directed.n - 1)}) @@ @)]
    /\ pc' = "sum_above"
    /\ UNCHANGED <<module, tree, budget, todo, local, result, nextId>>

ComputeSumAbove ==
    /\ pc = "sum_above"
    /\ directed' = WithSumAbove(directed)
    /\ memo' = [memo EXCEPT !["sum_dist_above"] =
                   cache_clear(Keys({<<directed.id, x>> : x \in 0..(directed.n - 1)}) @@ @)]
    /\ pc' = "exp_dist"
    /\ UNCHANGED <<module, tree, budget, todo, local, result, nextId>>

\* the table of exp_distance for every node and tuple of children, attached
\* to the tree; the normalisation loop then starts
ComputeExpDist ==
    /\ pc = "exp_dist"
    /\ LET tab == ExpDistTable(directed)
       IN /\ directed' = WithExpDist(directed)
          /\ memo' = [memo EXCEPT !["exp_distance"] =
                         cache_clear(Keys({<<directed.id, k[1], k[2]>> : k \in DOMAIN tab}) @@ @)]
    /\ todo' = 0..(directed.n - 1)
    /\ pc' = "normalize"
    /\ UNCHANGED <<module, tree, budget, local, result, nextId>>

\* one iteration of "for x in directed" of the normalisation loop; the
\* iteration order of the graph's nodes is not fixed
NormalizeNode(x) ==
    /\ pc = "normalize"
    /\ x \in todo
    /\ LET r == normalize_node(directed, memo["exp_distance_parent"], x)
       IN /\ directed' = [directed EXCEPT !.exp_dist = r.exp_dist]
          /\ memo' = [memo EXCEPT !["exp_distance_parent"] = r.cache]
    /\ todo' = todo \ {x}
    /\ UNCHANGED <<pc, module, tree, budget, local, result, nextId>>

\* prob_err: err, obs = _opt(directed, root, budget)
PlaceSensorsPE ==
    /\ pc = "dp"
    /\ LET calls == PE_opt_calls(directed, directed.root, directed.budget)
       IN /\ local' = PE_opt(directed, directed.root, directed.budget)
          /\ memo' = [memo EXCEPT !["prob_err._opt"] = OptKeys(calls) @@ @,
                                  !["prob_err._optc"] = OptcKeys(calls) @@ @]
    /\ pc' = "return"
    /\ UNCHANGED <<module, tree, budget, directed, todo, result, nextId>>

\* exp_dist: the end of preprocess, then exp_dist, obs = _opt(directed,
\* root, budget); a class key that is not in the table raises KeyError
PlaceSensorsED ==
    /\ pc = "normalize"
    /\ todo = {}
    /\ LET t == [directed EXCEPT !.budget = budget]
           calls == ED_opt_calls(t, t.root, t.budget)
       IN /\ memo' = [memo EXCEPT !["exp_distance_parent"] = cache_clear(@),
                                  !["exp_dist._opt"] = OptKeys(calls) @@ @,
                                  !["exp_dist._optc"] = OptcKeys(calls) @@ @]
          /\ IF ED_lookups(t, calls) \subseteq DOMAIN t.exp_dist
             THEN /\ local' = ED_opt(t, t.root, t.budget)
                  /\ directed' = t
                  /\ pc' = "return"
                  /\ UNCHANGED <<todo, result>>
             ELSE Finish(Raised("KeyError"))
    /\ UNCHANGED <<module, tree, budget, nextId>>

\* the cache_clear of _optc and _opt, and the return of
\* (float(value) / len(tree), obs)
Return ==
    /\ pc = "return"
    /\ memo' = IF module = "prob_err"
               THEN [memo EXCEPT !["prob_err._optc"] = cache_clear(@),
                                 !["prob_err._opt"] = cache_clear(@)]
               ELSE [memo EXCEPT !["exp_dist._optc"] = cache_clear(@),
                                 !["exp_dist._opt"] = cache_clear(@)]
    /\ Finish(Returned(IF module = "prob_err"
                       THEN PE_scaled(directed, local.e)
                       ELSE ED_scaled(directed, local.e),
                       local.o))
    /\ UNCHANGED <<module, tree, budget, nextId>>

\* the caller is done with the result and may call again
NextCall ==
    /\ pc = "done"
    /\ pc' = "idle"
    /\ module' = "none" /\ tree' = NoGraph /\ budget' = 0
    /\ result' = NoResult
    /\ UNCHANGED <<directed, todo, memo, local, nextId>>

Next ==
    \/ \E m \in Modules, g \in Graphs, b \in Budgets : Call(m, g, b)
    \/ ComputeSizes
    \/ ComputeSumBelow
    \/ ComputeSumAbove
    \/ ComputeExpDist
    \/ \E x \in todo : NormalizeNode(x)
    \/ PlaceSensorsPE
    \/ PlaceSensorsED
    \/ Return
    \/ NextCall

Spec == Init /\ [][Next]_vars

\* ------------------------------------------------------------- the claims
\* a call of the optimizer m on a tree has returned a pair to its caller
ReturnedOn(m) ==
    /\ pc = "done"
    /\ module = m
    /\ result.status = "ok"
    /\ is_tree(tree)

NbLeaves == Len(find_leaves(tree))

\* C1: whenever prob_err.optimal_placement has returned on a tree with
\* 2 <= budget <= |L|, whatever non-leaf it picked as root, the error
\* probability it returned is the one the brute-force utilities.prob_err
\* finds over all placements of budget sensors on the leaves.
C1_PErrMatchesBrute ==
    (ReturnedOn("prob_err") /\ 2 <= budget /\ budget <= NbLeaves)
        => result.obj = prob_err(tree, find_leaves(tree), budget).e

\* the dynamic program of prob_err ran and left some node unresolved
C1_Witness ==
    /\ ReturnedOn("prob_err")
    /\ 2 <= budget /\ budget < NbLeaves
    /\ result.obj > 0

C4_Saturation ==
    [][(pc = "idle" /\ is_tree(tree') /\ budget' >= 2
            /\ budget' >= Len(find_leaves(tree')))
        => /\ pc' = "done"
           /\ result' = Returned(0, find_leaves(tree'))
           /\ Range(result'.obs) =
                 (IF tree'.n = 1 THEN {0}
                  ELSE {v \in Nodes(tree') : Degree(tree', v) = 1})
           /\ nextId' = nextId /\ directed' = NoTree /\ memo' = memo]_vars

\* a saturated call has returned: once with more budget than leaves
C4_Witness ==
    /\ pc = "done" /\ is_tree(tree) /\ budget >= 2
    /\ budget = NbLeaves + 1
    /\ result.status = "ok"

\* C5: the value _opt hands to optimal_placement, and the value
\* optimal_placement hands to its caller on a tree with 2 <= b <= |L|, is
\* never the INFINITY sentinel.
C5_FiniteObjective ==
    /\ pc = "return" => local.e < INFINITY
    /\ (pc = "done" /\ result.status = "ok" /\ is_tree(tree)
           /\ 2 <= budget /\ budget <= NbLeaves) => result.obj < INFINITY

\* the sentinel was produced inside the DP (a leaf was asked to take
\* several sensors) and the value at the root is finite
C5_Witness ==
    /\ pc = "return"
    /\ local.e < INFINITY
    /\ \E key \in DOMAIN memo["prob_err._opt"] \cup DOMAIN memo["exp_dist._opt"] :
           directed.deg[key[2]] = 1 /\ key[3] > 1

\* C6: the value returned with budget b >= 2 is at least the value the same
\* optimizer returns with budget b + 1, whatever roots the two calls pick.
C6_Monotone ==
    (pc = "done" /\ result.status = "ok" /\ is_tree(tree) /\ budget >= 2)
        => IF Saturated(budget + 1, find_leaves(tree)) THEN 0 <= result.obj
           ELSE \A root \in NonLeaves(tree), order \in Orders :
                    Optimal(module, tree, budget + 1, root, order) <= result.obj

\* the dynamic program runs for the budget and for the budget plus one
C6_Witness ==
    /\ pc = "done" /\ result.status = "ok" /\ is_tree(tree) /\ budget >= 2
    /\ budget + 1 < NbLeaves
    /\ result.obj > 0

\* C7 (as claimed): a call with a budget b >= 2 on a graph that is not a
\* tree ends with an error and never returns a pair to its caller.
C7_RejectsNonTrees ==
    (pc = "done" /\ ~is_tree(tree) /\ budget >= 2) => result.status = "error"

\* C8 (as claimed): on the tree of scenario S3 with budget 2 the sensors
\* (3, 5) give the classes {3}, {5}, {1,4}, {0,2,6} and the optimal error
\* probability, from the optimizer and from the brute force, is 3/7.
C8_S3_AsClaimed ==
    (ReturnedOn("prob_err") /\ tree = S3Tree /\ budget = 2)
        => /\ equivalence_classes(Dists(S3Tree), <<3, 5>>)
                 = {{3}, {5}, {1, 4}, {0, 2, 6}}
           /\ result.obj * 7 = 3 * Unit(7)
           /\ prob_err(S3Tree, find_leaves(S3Tree), 2).e * 7 = 3 * Unit(7)

\* C8 (amended): on the tree of scenario S3 with budget 2 the sensors
\* (3, 5) give the classes {3}, {5}, {1,4}, {0}, {2,6} and the optimal error
\* probability, from the optimizer and from the brute force, is 2/7.
C8_S3 ==
    (ReturnedOn("prob_err") /\ tree = S3Tree /\ budget = 2)
        => /\ equivalence_classes(Dists(S3Tree), <<3, 5>>)
                 = {{3}, {5}, {1, 4}, {0}, {2, 6}}
           /\ result.obj * 7 = 2 * Unit(7)
           /\ prob_err(S3Tree, find_leaves(S3Tree), 2).e * 7 = 2 * Unit(7)

\* prob_err.optimal_placement has returned on the tree of S3 with budget 2
C8_Witness == ReturnedOn("prob_err") /\ tree = S3Tree /\ budget = 2

\* C9: whenever no call is running every memo table is empty, and at any
\* time every entry of every memo table was written for the tree object of
\* the running call, so that no call finds an entry of an earlier call.
C9_MemoIsolation ==
    /\ pc \in {"idle", "done"} => \A f \in MemoNames : DOMAIN memo[f] = {}
    /\ \A f \in MemoNames : \A key \in DOMAIN memo[f] : key[1] = directed.id

\* a second call that ran the dynamic program is about to return, its
\* tables filled
C9_Witness ==
    /\ pc = "return"
    /\ nextId = 2
    /\ DOMAIN memo["exp_dist._optc"] # {}

\* the nodes of the subtree rooted at x
RECURSIVE SubtreeOf(_, _)
SubtreeOf(t, x) == {x} \cup UNION {SubtreeOf(t, c) : c \in Range(t.succ[x])}

\* T(x, S): x and the subtrees of the children in S
ClassBelow(t, x, S) == {x} \cup UNION {SubtreeOf(t, c) : c \in S}

\* T+(x, S): T(x, S) and the nodes outside the subtree of x
ClassAbove(t, x, S) == ClassBelow(t, x, S) \cup ((0..(t.n - 1)) \ SubtreeOf(t, x))

\* the sum of D[u][v] over the ordered pairs (u, v) of the class C
PairSum(D, C) ==
    LET c == SortAsc(C)
    IN Sum([i \in DOMAIN c |-> Sum([j \in DOMAIN c |-> D[c[i]][c[j]]])])

\* C10: when the normalisation loop has visited every node, in whatever
\* order, then for every node x and every set S of children of x the entry
\* exp_dist[x][sorted(S)] times |T(x,S)| is the sum of D over the ordered
\* pairs of T(x,S), and for x # root the entry exp_dist[x][(p(x),)+sorted(S)]
\* times |T+(x,S)| is the sum of D over the ordered pairs of T+(x,S); so
\* exp_dist[root][all children] * n is twice the sum of D over u < v.
C10_ClassExpDist ==
    (pc = "normalize" /\ todo = {})
        => LET t == directed
               D == Dists(tree)
           IN \A x \in 0..(t.n - 1) : \A S \in SUBSET Range(t.succ[x]) :
                  /\ <<x, SortAsc(S)>> \in DOMAIN t.exp_dist
                  /\ t.exp_dist[<<x, SortAsc(S)>>] * Cardinality(ClassBelow(t, x, S))
                        = R(t, PairSum(D, ClassBelow(t, x, S)))
                  /\ x # t.root =>
                        /\ <<x, <<t.pred[x]>> \o SortAsc(S)>> \in DOMAIN t.exp_dist
                        /\ t.exp_dist[<<x, <<t.pred[x]>> \o SortAsc(S)>>]
                                * Cardinality(ClassAbove(t, x, S))
                              = R(t, PairSum(D, ClassAbove(t, x, S)))

\* the loop is over on a tree with an inner node below the root, whose
\* classes reach above it through the memoised recursion
C10_Witness ==
    /\ pc = "normalize" /\ todo = {}
    /\ \E x \in 0..(directed.n - 1) :
          /\ x # directed.root /\ directed.deg[x] > 2
          /\ directed.exp_dist[<<x, <<directed.pred[x]>> \o SortAsc(Range(directed.succ[x]))>>] > 0

\* the leaves of the tree below the node x of the rooted tree t
LeavesBelow(t, x) == {v \in SubtreeOf(t, x) : t.deg[v] = 1}

\* the calls _opt(tree, x, k) the dynamic program of exp_dist has made
OptCalled == DOMAIN memo["exp_dist._opt"]

\* C11 (as claimed): in the E_dist dynamic program started as _opt(root, b)
\* a non-root node can get the whole budget: whenever b leaves lie below a
\* single child c of the root, _opt(c, b) is among the calls, so that the
\* placements with all b sensors below c are among the candidates compared.
C11_WholeBudgetBelowChild ==
    (pc = "return" /\ module = "exp_dist")
        => \A c \in Range(directed.succ[directed.root]) :
               Cardinality(LeavesBelow(directed, c)) >= budget
                   => <<directed.id, c, budget>> \in OptCalled

\* the subtree statistics size and sum_below of the rooted tree are computed
StatsComputed ==
    /\ module = "exp_dist"
    /\ pc \in {"sum_above", "exp_dist", "normalize", "return"}

\* the sum of sum_below(x) over all the nodes x
TotalSumBelow(t) == Sum([i \in 1..t.n |-> t.sum_below[i - 1]])

\* C12 (as claimed): once the subtree statistics are computed for a tree
\* rooted at a non-leaf, the sum over all nodes x of sum_below(x) is the sum
\* of D[u][v] over all unordered pairs u < v, and size(root) = n.
C12_SumBelowAllPairs ==
    StatsComputed
        => /\ TotalSumBelow(directed)
                 = Sum([u \in 1..directed.n |-> Sum([v \in 1..directed.n |->
                          IF u < v THEN directed.dists[u - 1][v - 1] ELSE 0])])
           /\ directed.size[directed.root] = directed.n

\* C12 (amended): once the subtree statistics are computed for a tree rooted
\* at a non-leaf, the sum over all nodes x of sum_below(x) is the sum of
\* D[u][v] over the pairs of a node u and a node v of the subtree of u, and
\* size(root) = n.
C12_SumBelowDescendants ==
    StatsComputed
        => /\ TotalSumBelow(directed)
                 = Sum([u \in 1..directed.n |-> Sum([v \in 1..directed.n |->
                          IF v - 1 \in SubtreeOf(directed, u - 1)
                          THEN directed.dists[u - 1][v - 1] ELSE 0])])
           /\ directed.size[directed.root] = directed.n

\* the statistics are there for a tree with a node two levels below the
\* root: an inner node other than the root has nodes below it
C12_Witness ==
    /\ StatsComputed
    /\ pc = "sum_above"
    /\ \E x \in 0..(directed.n - 1) :
          x # directed.root /\ directed.sum_below[x] > 0

\* the objective of the placement obs, from the classes that
\* utilities.equivalence_classes gives for it: the metric of the optimizer m
Achieved(m, g, obs) ==
    LET D == Dists(g)
    IN IF m = "prob_err"
       THEN prob_err_from_cardinalities(equivalence_classes(D, obs))
       ELSE exp_dist_from_classes(D, equivalence_classes(D, obs))

\* C13: whenever an optimizer has returned on a tree with 2 <= budget < |L|,
\* whatever the root, the witness it returned is a tuple of exactly budget
\* pairwise distinct leaves, and evaluating that witness through the
\* signature classes gives the objective value returned with it.
C13_WitnessAchieves ==
    (pc = "done" /\ result.status = "ok" /\ is_tree(tree)
        /\ 2 <= budget /\ budget < NbLeaves)
        => /\ Len(result.obs) = budget
           /\ Cardinality(Range(result.obs)) = budget
           /\ Range(result.obs) \subseteq Range(find_leaves(tree))
           /\ Achieved(module, tree, result.obs) = result.obj

\* the dynamic program returned three sensors that leave nodes unresolved
C13_Witness ==
    /\ pc = "done" /\ result.status = "ok" /\ is_tree(tree)
    /\ 3 <= budget /\ budget < NbLeaves
    /\ Len(result.obs) = 3
    /\ result.obj > 0

\* C14: when the table of a tree with 2 <= budget < |L| is complete, every
\* call of _optc that the dynamic program started as _opt(root, budget)
\* makes with k = 0 looks up a key (the predecessor first when present, the
\* rest sorted) that the table exp_dist[x] holds, whatever the root and the
\* order of the children; so no call ends with a KeyError.
C14_LookupNeverFails ==
    /\ (pc = "normalize" /\ todo = {})
          => \A t \in {[directed EXCEPT !.budget = budget]} :
                 ED_lookups(t, ED_opt_calls(t, t.root, budget))
                     \subseteq DOMAIN t.exp_dist
    /\ (pc = "done" /\ result.status = "error") => result.error # "KeyError"

\* the dynamic program has looked up a class whose tuple, as it was built
\* from the children without sensor, was not sorted
C14_Witness ==
    /\ pc = "return" /\ module = "exp_dist"
    /\ \E key \in DOMAIN memo["exp_dist._optc"] :
          /\ key[3] = 0
          /\ Len(key[5] \o key[4]) >= 2
          /\ class_key(directed, key[2], key[5] \o key[4]) # key[5] \o key[4]

====
